---------------------------- MODULE Spec2Model ----------------------------
(***************************************************************************)
(* A state-machine model of the MessageList component                      *)
(* (src/src/components/MessageList.js).                                     *)
(*                                                                         *)
(* Four specifications share the variables:                                *)
(*   Spec        the life cycle of one component instance: construction,    *)
(*               componentDidMount, update cycles (render,                  *)
(*               getSnapshotBeforeUpdate, commit, componentDidUpdate),      *)
(*               listenToScroll, goToNewMessages, the setTimeout tasks and  *)
(*               componentWillUnmount, over a small pool of messages;       *)
(*   SpecRender  render()'s pure helpers (insertDates, getGroupStyles)      *)
(*               applied to message sequences drawn from a richer pool;     *)
(*   SpecRead    render() with getReadStates, over edited messages and      *)
(*               read states;                                               *)
(*   SpecState   the online and editing sub-states between mount and        *)
(*               unmount: connectionChanged, keypress, setEditingState,     *)
(*               clearEditingState.                                         *)
(***************************************************************************)
EXTENDS Integers, Sequences, FiniteSets, TLC

VARIABLES
  phase,                    \* "constructed" | "mounted" | "unmounted"
  newMessagesNotification,  \* this.state.newMessagesNotification
  scrollOffset,             \* this.scrollOffset (Undefined until the first report)
  messages,                 \* this.props.messages
  eventHistory,             \* this.props.eventHistory
  threadList,               \* this.props.threadList
  noGroupByUser,            \* this.props.noGroupByUser
  scrollHeight,             \* this.messageList.current.scrollHeight
  scrollTop,                \* this.messageList.current.scrollTop
  timers,                   \* pending setTimeout tasks, in creation order
  error,                    \* an uncaught TypeError was raised
  allMessages,              \* render(): the timeline built by insertDates
  messageGroupStyles,       \* render(): the map returned by getGroupStyles
  read,                     \* this.props.read, as Object.values lists it
  readData,                 \* render(): the map returned by getReadStates
  online,                   \* this.state.online
  editing,                  \* this.state.editing
  listeners,                \* the handlers registered with client / document
  cycle                     \* what the last handler did (observation only)

vars == << phase, newMessagesNotification, scrollOffset, messages, eventHistory,
           threadList, noGroupByUser, scrollHeight, scrollTop, timers,
           error, allMessages, messageGroupStyles, read, readData, online,
           editing, listeners, cycle >>

-----------------------------------------------------------------------------
(* Values *)

\* JavaScript's undefined / null for a number-valued slot.
Undefined == -1

\* message.id of a locally pending message (the id is absent); as an object
\* key JavaScript turns it into the string "undefined".
NoId == "undefined"

\* The sentinel key of eventHistory.
First == "first"

\* this.props.client.user.id / this.props.client.userID: the local user.
LocalUser == "me"

OtherUser == "bob"

\* Length of a calendar day in the model's time unit.
DayLen == 8

\* Ids handed to the messages of a sequence, by position.
IdNames == << "m1", "m2", "m3", "m4", "m5", "m6" >>

\* The keys eventHistory can hold.
EventKeys == { IdNames[i] : i \in 1..Len(IdNames) } \cup { First }

Max(a, b) == IF a >= b THEN a ELSE b

Min(a, b) == IF a <= b THEN a ELSE b

\* A message of this.props.messages.
Msg(id, user, type, deleted_at, created_at, attachments) ==
  [ type |-> type, id |-> id, user |-> user, deleted_at |-> deleted_at,
    created_at |-> created_at, updated_at |-> created_at,
    attachments |-> attachments, date |-> Undefined, event |-> Undefined ]

\* { type: 'message.date', date: message.created_at }
DateEntry(date) ==
  [ type |-> "message.date", id |-> NoId, user |-> "", deleted_at |-> FALSE,
    created_at |-> Undefined, updated_at |-> Undefined, attachments |-> 0,
    date |-> date, event |-> Undefined ]

\* { type: 'channel.event', event: e }; an event is given by its created_at.
EventEntry(e) ==
  [ type |-> "channel.event", id |-> NoId, user |-> "", deleted_at |-> FALSE,
    created_at |-> Undefined, updated_at |-> Undefined, attachments |-> 0,
    date |-> Undefined, event |-> e ]

\* Date.prototype.getDay(): the day of the week, 0..6 (day 0 of the time
\* axis is a Thursday, as 1970-01-01 was).
getDay(t) == ((t \div DayLen) + 4) % 7

\* The calendar day a time falls on.
CalendarDay(t) == t \div DayLen

-----------------------------------------------------------------------------
(* insertDates *)

\* this.props.eventHistory[message.id || 'first']
eventsNextToMessage(message, eh) ==
  eh[IF message.id = NoId THEN First ELSE message.id]

RECURSIVE EventEntries(_)
EventEntries(events) ==
  IF events = << >> THEN << >>
  ELSE << EventEntry(Head(events)) >> \o EventEntries(Tail(events))

\* What one iteration of insertDates' loop pushes for messages[i].
insertDatesStep(msgs, i, eh) ==
  LET message == msgs[i]
      messageDate == getDay(message.created_at)
      prevMessageDate == IF i > 1 THEN getDay(msgs[i - 1].created_at)
                         ELSE messageDate
  IN IF message.type = "message.read" \/ message.deleted_at
     THEN << message >>
     ELSE (IF i = 1 \/ messageDate # prevMessageDate
           THEN << DateEntry(message.created_at), message >>
           ELSE << message >>)
          \o EventEntries(eventsNextToMessage(message, eh))

RECURSIVE insertDatesFrom(_, _, _)
insertDatesFrom(msgs, i, eh) ==
  IF i > Len(msgs) THEN << >>
  ELSE insertDatesStep(msgs, i, eh) \o insertDatesFrom(msgs, i + 1, eh)

insertDates(msgs, eh) == insertDatesFrom(msgs, 1, eh)


-----------------------------------------------------------------------------
(* getGroupStyles *)

\* An entry that is no message: getGroupStyles skips it.
IsMarker(entry) == entry.type = "message.date" \/ entry.type = "channel.event"

\* The condition shared by isTopMessage (neighbour = previousMessage) and
\* isBottomMessage (neighbour = nextMessage), for a neighbour that exists.
BreaksGroup(neighbour, userId) ==
  \/ neighbour.type = "message.date"
  \/ neighbour.type = "system"
  \/ neighbour.type = "channel.event"
  \/ neighbour.attachments # 0
  \/ userId # neighbour.user
  \/ neighbour.type = "error"
  \/ neighbour.deleted_at

isTopMessage(m, i) == i = 1 \/ BreaksGroup(m[i - 1], m[i].user)

isBottomMessage(m, i) == i = Len(m) \/ BreaksGroup(m[i + 1], m[i].user)

\* The groupStyles array the loop holds for entry i before the overrides.
NeighbourStyles(m, i) ==
  LET message == m[i]
      top == isTopMessage(m, i)
      bottom == isBottomMessage(m, i)
      broken == message.deleted_at \/ message.type = "error"
  IN IF bottom
     THEN IF top \/ broken THEN << "single" >>
          ELSE << "bottom" >>
     ELSE IF top THEN << "top" >>
          ELSE IF broken THEN << "single" >> ELSE << "middle" >>

\* The groupStyles array stored for entry i (a message entry).
GroupStylesAt(m, i, noGroup) ==
  IF noGroup THEN << "single" >>
  ELSE IF m[i].attachments # 0 THEN << "single" >>
  ELSE NeighbourStyles(m, i)

\* messageGroupStyles[key] = value
Put(map, key, value) ==
  [ k \in (DOMAIN map) \cup { key } |-> IF k = key THEN value ELSE map[k] ]

EmptyMap == [ k \in {} |-> << >> ]

RECURSIVE getGroupStylesFrom(_, _, _, _)
getGroupStylesFrom(m, i, noGroup, styles) ==
  IF i > Len(m) THEN styles
  ELSE IF IsMarker(m[i]) THEN getGroupStylesFrom(m, i + 1, noGroup, styles)
  ELSE getGroupStylesFrom(m, i + 1, noGroup,
                          Put(styles, m[i].id, GroupStylesAt(m, i, noGroup)))

getGroupStyles(m, noGroup) == getGroupStylesFrom(m, 1, noGroup, EmptyMap)

\* render(): let groupStyles = messageGroupStyles[message.id];
\*           if (!groupStyles) groupStyles = [];
groupStylesOf(styles, message) ==
  IF message.id \in DOMAIN styles THEN styles[message.id] ELSE << >>

-----------------------------------------------------------------------------
(* render(): allMessages.sort *)

\* The comparator function(a, b) { return a.created_at - b.created_at; } as
\* Array.prototype.sort reads it: a date marker and an event have no
\* created_at, the difference is NaN, and sort takes NaN for +0.
SortCompare(a, b) ==
  IF a.created_at = Undefined \/ b.created_at = Undefined THEN 0
  ELSE a.created_at - b.created_at

\* One pass of the insertion: x moves left past every entry the comparator
\* puts after it, and stops at the first one it does not.
RECURSIVE InsertSorted(_, _)
InsertSorted(s, x) ==
  IF s = << >> THEN << x >>
  ELSE IF SortCompare(s[Len(s)], x) > 0
       THEN Append(InsertSorted(SubSeq(s, 1, Len(s) - 1), x), s[Len(s)])
       ELSE Append(s, x)

\* allMessages.sort(comparator), as an insertion sort (the engines sort an
\* array this short by insertion).  The messages are handed over in ascending
\* order of created_at, so no comparison of an entry with a later one is
\* above 0.
RECURSIVE sort(_)
sort(s) ==
  IF s = << >> THEN << >>
  ELSE InsertSorted(sort(SubSeq(s, 1, Len(s) - 1)), s[Len(s)])

-----------------------------------------------------------------------------
(* getReadStates *)

\* One value of this.props.read: a user and the time of their last read
\* (Undefined for a null last_read).
ReadState(user, last_read) == [ user |-> user, last_read |-> last_read ]

\* readData after the first loop: an empty array under the id of every entry
\* handed over (an entry without an id writes the key "undefined").
EmptyReadData(tl) == [ k \in { tl[i].id : i \in 1..Len(tl) } |-> << >> ]

\* The second loop skipping a read state whose last_read is null (continue
\* in place of break).
ProcessedReads_Continue(reads) ==
  SelectSeq(reads, LAMBDA r : r.last_read # Undefined)

\* The read states the second loop gets to: it breaks at the first one whose
\* last_read is null.
RECURSIVE ProcessedReads(_)
ProcessedReads(reads) ==
  IF reads = << >> THEN << >>
  ELSE IF Head(reads).last_read = Undefined THEN << >>
  ELSE << Head(reads) >> \o ProcessedReads(Tail(reads))

\* msg.updated_at < readState.last_read (false for an entry without
\* updated_at: undefined < date).
ReadBefore(msg, last_read) ==
  msg.updated_at # Undefined /\ msg.updated_at < last_read

\* userLastReadMsgId after the inner loop: the id of the last entry read
\* before last_read; undefined if there is none or if that entry has no id.
userLastReadMsgId(tl, last_read) ==
  LET S == { i \in 1..Len(tl) : ReadBefore(tl[i], last_read) }
  IN IF S = {} THEN NoId
     ELSE tl[CHOOSE i \in S : \A j \in S : j <= i].id

\* The second loop over the read states it processes.
RECURSIVE AccumulateReads(_, _, _)
AccumulateReads(tl, reads, data) ==
  IF reads = << >> THEN data
  ELSE LET id == userLastReadMsgId(tl, Head(reads).last_read)
       IN AccumulateReads(tl, Tail(reads),
            IF id # NoId
            THEN Put(data, id, Append(data[id], Head(reads).user))
            ELSE data)

getReadStates(tl, reads) ==
  AccumulateReads(tl, ProcessedReads(reads), EmptyReadData(tl))

\* render(): const readBy = readData[message.id] || [];
readByOf(data, message) ==
  IF message.id \in DOMAIN data THEN data[message.id] ELSE << >>

-----------------------------------------------------------------------------
(* Bounds and the inputs of the life cycle *)

\* setTimeout tasks that can be pending at once.
MaxTimers == 2

\* Messages of a sequence handed to render() on its own.
MaxRenderLen == 3

\* Messages of a sequence handed to render() together with read states.
MaxReadLen == 3

\* Read states of this.props.read.
MaxReads == 3

\* The messages of the channel during one life cycle, in order of creation:
\* one by another user, one by the local user, one by another user with an
\* attachment.
LifePool ==
  << Msg("m1", OtherUser, "regular", FALSE, 1, 0),
     Msg("m2", LocalUser, "regular", FALSE, 2, 0),
     Msg("m3", OtherUser, "regular", FALSE, 3, 1) >>

RECURSIVE SeqOfSet(_)
SeqOfSet(S) ==
  IF S = {} THEN << >>
  ELSE LET i == CHOOSE x \in S : \A y \in S : x <= y
       IN << LifePool[i] >> \o SeqOfSet(S \ { i })

\* The values this.props.messages takes: the channel's messages, in order
\* of creation, with any of them not (or no longer) present.
LifeMessages == { SeqOfSet(S) : S \in SUBSET (1..Len(LifePool)) }

NoEvents == [ k \in EventKeys |-> << >> ]

\* The values this.props.eventHistory takes: no event, one event recorded
\* next to the first message.
LifeEventHistories ==
  { NoEvents, [ NoEvents EXCEPT !["m1"] = << 2 >> ] }

\* Offsets the scroll container reports to listenToScroll.
Offsets == { 310, 311 }

\* Distances from the bottom the user scrolls the list to.
ScrollStops == { 0, 400 }

-----------------------------------------------------------------------------
(* The scroll container *)

\* offsetHeight / clientHeight of the list, in pixels.
OffsetHeight == 400

\* Height of one rendered timeline entry, in pixels.
RowHeight == 200

\* The entries render() turns into elements: no date separator in a thread,
\* nothing for a message.read entry.
IsRendered(entry, thread) ==
  /\ ~(entry.type = "message.date" /\ thread)
  /\ entry.type # "message.read"

RenderedCount(tl, thread) ==
  Cardinality({ i \in 1..Len(tl) : IsRendered(tl[i], thread) })

\* list.scrollHeight for a rendered timeline.
LayoutHeight(tl, thread) ==
  Max(OffsetHeight, RowHeight * RenderedCount(tl, thread))

\* Assigning containerEl.scrollTop: the browser keeps it in
\* 0 .. scrollHeight - offsetHeight.
Clamp(target, height) == Max(0, Min(target, height - OffsetHeight))

\* this.bottomRef.current.offsetTop: the bottom marker ends the content.
BottomOffsetTop(height) == height

\* The refs are attached exactly while the component is mounted.
Attached(ph) == ph = "mounted"

-----------------------------------------------------------------------------
(* The component's methods *)

\* The threshold of userScrolledUp, in pixels.
ScrollThreshold == 310

\* Delay of the re-application of the anchor restore, in milliseconds.
RestoreDelay == 100

\* Delay of the re-issue of the scroll to the bottom, in milliseconds.
BottomDelay == 200

\* Time passes in steps of this many milliseconds.
TimeStep == 100

\* userScrolledUp with the comparison >= in place of >.
userScrolledUp_AtThreshold(offset) ==
  offset # Undefined /\ offset >= ScrollThreshold

\* userScrolledUp = () => this.scrollOffset > 310   (undefined > 310 is false)
userScrolledUp(offset) == offset # Undefined /\ offset > ScrollThreshold

\* getSnapshotBeforeUpdate without the comparison of eventHistory.
getSnapshotBeforeUpdate_CountOnly(prevMessages, prevEH, msgs, eh, thread, height, top) ==
  IF thread THEN Undefined
  ELSE IF Len(prevMessages) < Len(msgs) THEN height - top
       ELSE Undefined

\* getSnapshotBeforeUpdate(prevProps): null (Undefined) or
\* list.scrollHeight - list.scrollTop, read before the DOM is changed.
getSnapshotBeforeUpdate(prevMessages, prevEH, msgs, eh, thread, height, top) ==
  IF thread THEN Undefined
  ELSE IF Len(prevMessages) < Len(msgs) \/ eh # prevEH
       THEN height - top
       ELSE Undefined

\* The restore passing the snapshot itself as the scroll position.
RestoreTarget_Snapshot(height, snapshot) == snapshot

\* The first argument of scrollToTarget in componentDidUpdate.
RestoreTarget(height, snapshot) == height - snapshot

\* scrollToTarget(target, containerEl) for a Number target, and for an
\* element target with target.offsetTop: the resulting containerEl.scrollTop.
scrollToTarget(target, height) == Clamp(target, height)

\* The re-application scheduled for the local user's own message too.
SchedulesRestore_OwnToo(msgs, snapshot) == snapshot # Undefined

\* The condition under which componentDidUpdate schedules the re-application.
SchedulesRestore(msgs, snapshot) ==
  /\ snapshot # Undefined
  /\ Len(msgs) > 0
  /\ msgs[Len(msgs)].user # LocalUser

\* if (!previousLastMessage || !currentLastMessage) return;
HasBothLast(prevMessages, msgs) == Len(prevMessages) > 0 /\ Len(msgs) > 0

hasNewMessage(prevMessages, msgs) ==
  msgs[Len(msgs)].id # prevMessages[Len(prevMessages)].id

\* isOwner comparing the user object with the id: never equal.
isOwner_Never(msgs) == FALSE

isOwner(msgs) == msgs[Len(msgs)].user = LocalUser

\* componentDidUpdate without the early return for an empty previous or
\* current message sequence, scrolling down in that case.
DecidesScrollToBottom_WhenEmpty(prevMessages, msgs, offset) ==
  IF ~HasBothLast(prevMessages, msgs) THEN TRUE
  ELSE /\ hasNewMessage(prevMessages, msgs)
       /\ isOwner(msgs) \/ ~userScrolledUp(offset)

\* componentDidUpdate scrolling down for every new message, wherever the
\* list is scrolled.
DecidesScrollToBottom_AnyNewMessage(prevMessages, msgs, offset) ==
  HasBothLast(prevMessages, msgs) /\ hasNewMessage(prevMessages, msgs)

\* The value of componentDidUpdate's local scrollToBottom.
DecidesScrollToBottom(prevMessages, msgs, offset) ==
  /\ HasBothLast(prevMessages, msgs)
  /\ \/ hasNewMessage(prevMessages, msgs) /\ isOwner(msgs)
     \/ hasNewMessage(prevMessages, msgs) /\ ~userScrolledUp(offset)

\* componentDidUpdate reaches this.setState({ newMessagesNotification: true }).
SetsNotification(prevMessages, msgs, offset, notification) ==
  /\ HasBothLast(prevMessages, msgs)
  /\ ~DecidesScrollToBottom(prevMessages, msgs, offset)
  /\ hasNewMessage(prevMessages, msgs)
  /\ ~notification

\* componentDidUpdate reaches this.setState({ newMessagesNotification: false }).
ClearsNotification(prevMessages, msgs, offset, notification) ==
  /\ HasBothLast(prevMessages, msgs)
  /\ DecidesScrollToBottom(prevMessages, msgs, offset)
  /\ notification

\* this.state.newMessagesNotification after componentDidUpdate's setState calls.
NotificationAfterUpdate(prevMessages, msgs, offset, notification) ==
  IF SetsNotification(prevMessages, msgs, offset, notification) THEN TRUE
  ELSE IF ClearsNotification(prevMessages, msgs, offset, notification) THEN FALSE
  ELSE notification

\* listenToScroll(offset) that records the offset and leaves the
\* notification as it is.
NotificationAfterScroll_Keep(offset, notification) == notification

\* this.state.newMessagesNotification after listenToScroll(offset).
NotificationAfterScroll(offset, notification) ==
  IF notification /\ ~userScrolledUp(offset) THEN FALSE ELSE notification

\* scrollDown() that never finds its refs attached.
scrollDown_Nothing(ph, height, top) == top

\* scrollDown() of _scrollToRef: the resulting scrollTop; nothing happens
\* unless both refs are attached.
scrollDown(ph, height, top) ==
  IF Attached(ph) THEN scrollToTarget(BottomOffsetTop(height), height)
  ELSE top

\* A pending setTimeout task.
Timer(task, delay, snapshot) ==
  [ task |-> task, rem |-> delay, snapshot |-> snapshot ]

\* What a handler other than an update cycle leaves in `cycle`: its name,
\* whether it called scrollToBottom, and the value it passed to
\* setState({ newMessagesNotification }), if it made that call.
Did(op, toBottom, setNotification) ==
  [ op |-> op, scrollToBottom |-> toBottom, snapshot |-> Undefined,
    restore |-> Undefined, setNotification |-> setNotification,
    sameMessages |-> TRUE ]

-----------------------------------------------------------------------------
(* The life cycle *)

\* The state after the constructor ran, for any props it can be given.
Init ==
  /\ phase = "constructed"
  /\ newMessagesNotification = FALSE
  /\ scrollOffset = Undefined
  /\ messages \in LifeMessages
  /\ eventHistory = NoEvents
  /\ threadList \in BOOLEAN
  /\ noGroupByUser = FALSE
  /\ scrollHeight = 0
  /\ scrollTop = 0
  /\ timers = << >>
  /\ error = FALSE
  /\ allMessages = << >>
  /\ messageGroupStyles = EmptyMap
  /\ read = << >>
  /\ readData = EmptyMap
  /\ online = TRUE
  /\ editing = ""
  /\ listeners = {}
  /\ cycle = Did("constructor", FALSE, "none")

\* The first render and commit, then componentDidMount: scrollToBottom()
\* with the refs attached, and its 200 ms re-issue.
componentDidMount ==
  /\ phase = "constructed"
  /\ LET tl == insertDates(messages, eventHistory)
         height == LayoutHeight(tl, threadList)
     IN /\ allMessages' = sort(tl)
        /\ messageGroupStyles' = getGroupStyles(tl, noGroupByUser)
        /\ readData' = getReadStates(sort(tl), read)
        /\ scrollHeight' = height
        /\ scrollTop' = scrollDown("mounted", height, 0)
  /\ phase' = "mounted"
  /\ listeners' = { "connection.changed", "keydown" }
  /\ timers' = Append(timers, Timer("bottom", BottomDelay, Undefined))
  /\ cycle' = Did("componentDidMount", TRUE, "none")
  /\ UNCHANGED << newMessagesNotification, scrollOffset, messages, eventHistory,
                  threadList, noGroupByUser, error, read, online, editing >>

\* One update cycle for new props (or for the same props, after a setState):
\* render, getSnapshotBeforeUpdate, the commit of the DOM, componentDidUpdate.
componentDidUpdate(msgs, eh) ==
  /\ phase = "mounted"
  /\ LET tl == insertDates(msgs, eh)
         snapshot == getSnapshotBeforeUpdate(messages, eventHistory, msgs, eh,
                                             threadList, scrollHeight, scrollTop)
         height == LayoutHeight(tl, threadList)
         committedTop == Clamp(scrollTop, height)
         restored == IF snapshot # Undefined
                     THEN scrollToTarget(RestoreTarget(height, snapshot), height)
                     ELSE committedTop
         deferred == IF SchedulesRestore(msgs, snapshot)
                     THEN << Timer("restore", RestoreDelay, snapshot) >>
                     ELSE << >>
         toBottom == DecidesScrollToBottom(messages, msgs, scrollOffset)
         reissue == IF toBottom
                    THEN << Timer("bottom", BottomDelay, Undefined) >>
                    ELSE << >>
     IN /\ Len(timers) + Len(deferred) + Len(reissue) <= MaxTimers
        /\ allMessages' = sort(tl)
        /\ messageGroupStyles' = getGroupStyles(tl, noGroupByUser)
        /\ readData' = getReadStates(sort(tl), read)
        /\ scrollHeight' = height
        /\ scrollTop' = IF toBottom THEN scrollDown(phase, height, restored)
                        ELSE restored
        /\ timers' = timers \o deferred \o reissue
        /\ newMessagesNotification' =
             NotificationAfterUpdate(messages, msgs, scrollOffset,
                                     newMessagesNotification)
        /\ cycle' = [ op |-> "componentDidUpdate",
                      scrollToBottom |-> toBottom,
                      snapshot |-> snapshot,
                      restore |-> IF snapshot # Undefined
                                  THEN RestoreTarget(height, snapshot)
                                  ELSE Undefined,
                      setNotification |->
                        IF SetsNotification(messages, msgs, scrollOffset,
                                            newMessagesNotification)
                        THEN "true"
                        ELSE IF ClearsNotification(messages, msgs, scrollOffset,
                                                   newMessagesNotification)
                        THEN "false"
                        ELSE "none",
                      sameMessages |-> msgs = messages ]
  /\ messages' = msgs
  /\ eventHistory' = eh
  /\ UNCHANGED << phase, scrollOffset, threadList, noGroupByUser, error, read,
                  online, editing, listeners >>

\* The scroll container reports an offset.
listenToScroll(offset) ==
  /\ phase = "mounted"
  /\ scrollOffset' = offset
  /\ newMessagesNotification' =
       NotificationAfterScroll(offset, newMessagesNotification)
  /\ cycle' = Did("listenToScroll", FALSE,
                  IF newMessagesNotification /\ ~userScrolledUp(offset)
                  THEN "false" ELSE "none")
  /\ UNCHANGED << phase, messages, eventHistory, threadList, noGroupByUser,
                  scrollHeight, scrollTop, timers, error,
                  allMessages, messageGroupStyles,
                  read, readData, online, editing, listeners >>

\* The click on the notification: await this.scrollToBottom(), then setState.
\* The continuation of the await runs as a microtask, before any other task.
goToNewMessages ==
  /\ phase = "mounted"
  /\ Len(timers) < MaxTimers
  /\ scrollTop' = scrollDown(phase, scrollHeight, scrollTop)
  /\ timers' = Append(timers, Timer("bottom", BottomDelay, Undefined))
  /\ newMessagesNotification' = FALSE
  /\ cycle' = Did("goToNewMessages", TRUE, "false")
  /\ UNCHANGED << phase, scrollOffset, messages, eventHistory, threadList,
                  noGroupByUser, scrollHeight, error,
                  allMessages, messageGroupStyles,
                  read, readData, online, editing, listeners >>

\* componentWillUnmount: the two listeners are removed, nothing else; React
\* then detaches the refs and the list leaves the document.
componentWillUnmount ==
  /\ phase = "mounted"
  /\ phase' = "unmounted"
  /\ listeners' = {}
  /\ scrollHeight' = 0
  /\ scrollTop' = 0
  /\ cycle' = Did("componentWillUnmount", FALSE, "none")
  /\ UNCHANGED << newMessagesNotification, scrollOffset, messages, eventHistory,
                  threadList, noGroupByUser, timers, error,
                  allMessages, messageGroupStyles, read, readData, online,
                  editing >>

\* The user scrolls the list to a distance d from the bottom.
UserScroll(d) ==
  /\ phase = "mounted"
  /\ d <= scrollHeight - OffsetHeight
  /\ scrollTop # scrollHeight - OffsetHeight - d
  /\ scrollTop' = scrollHeight - OffsetHeight - d
  /\ cycle' = Did("idle", FALSE, "none")
  /\ UNCHANGED << phase, newMessagesNotification, scrollOffset, messages,
                  eventHistory, threadList, noGroupByUser, scrollHeight, timers,
                  error, allMessages, messageGroupStyles,
                  read, readData, online, editing, listeners >>

\* Time left until the next pending task is due.
NextDue == CHOOSE r \in { timers[i].rem : i \in 1..Len(timers) } :
             \A i \in 1..Len(timers) : r <= timers[i].rem

\* The index of the task that runs next: of those due first, the one
\* created first.
DueTimer == CHOOSE i \in 1..Len(timers) :
              /\ timers[i].rem = NextDue
              /\ \A j \in 1..(i - 1) : timers[j].rem # NextDue

\* The pending tasks once the next one has run: it is gone, and the time
\* that passed until it was due has passed for the others.
AfterDueTimer ==
  LET rest == SubSeq(timers, 1, DueTimer - 1)
                \o SubSeq(timers, DueTimer + 1, Len(timers))
  IN [ i \in 1..Len(rest) |-> [ rest[i] EXCEPT !.rem = @ - NextDue ] ]

\* The task setTimeout(..., 100) of componentDidUpdate runs:
\* this.scrollToTarget(list.scrollHeight - snapshot, this.messageList.current).
\* With the ref detached containerEl is null and the assignment
\* containerEl.scrollTop = target throws.
RestoreTimerFires ==
  /\ timers # << >>
  /\ timers[DueTimer].task = "restore"
  /\ timers' = AfterDueTimer
  /\ IF Attached(phase)
     THEN /\ scrollTop' = scrollToTarget(
                 RestoreTarget(scrollHeight, timers[DueTimer].snapshot),
                 scrollHeight)
          /\ error' = error
     ELSE /\ scrollTop' = scrollTop
          /\ error' = TRUE
  /\ cycle' = [ Did("restoreTimer", FALSE, "none") EXCEPT
                  !.snapshot = timers[DueTimer].snapshot ]
  /\ UNCHANGED << phase, newMessagesNotification, scrollOffset, messages,
                  eventHistory, threadList, noGroupByUser, scrollHeight,
                  allMessages, messageGroupStyles,
                  read, readData, online, editing, listeners >>

\* The task setTimeout(scrollDown.bind(this), 200) of _scrollToRef runs.
BottomTimerFires ==
  /\ timers # << >>
  /\ timers[DueTimer].task = "bottom"
  /\ timers' = AfterDueTimer
  /\ scrollTop' = scrollDown(phase, scrollHeight, scrollTop)
  /\ cycle' = Did("bottomTimer", Attached(phase), "none")
  /\ UNCHANGED << phase, newMessagesNotification, scrollOffset, messages,
                  eventHistory, threadList, noGroupByUser, scrollHeight, error,
                  allMessages, messageGroupStyles,
                  read, readData, online, editing, listeners >>

\* Time passes, less than it takes for the next pending task to be due.
Tick ==
  /\ timers # << >>
  /\ NextDue > TimeStep
  /\ timers' = [ i \in 1..Len(timers) |->
                   [ timers[i] EXCEPT !.rem = @ - TimeStep ] ]
  /\ cycle' = Did("idle", FALSE, "none")
  /\ UNCHANGED << phase, newMessagesNotification, scrollOffset, messages,
                  eventHistory, threadList, noGroupByUser, scrollHeight,
                  scrollTop, error, allMessages, messageGroupStyles,
                  read, readData, online, editing, listeners >>

Next ==
  \/ componentDidMount
  \/ \E msgs \in LifeMessages, eh \in LifeEventHistories :
       componentDidUpdate(msgs, eh)
  \/ \E offset \in Offsets : listenToScroll(offset)
  \/ goToNewMessages
  \/ componentWillUnmount
  \/ \E d \in ScrollStops : UserScroll(d)
  \/ RestoreTimerFires
  \/ BottomTimerFires
  \/ Tick

Spec == Init /\ [][Next]_vars

-----------------------------------------------------------------------------
(* render() on its own *)

\* What a message of a rendered sequence looks like: its author, type,
\* deletion, attachments, whether it has an id yet, and the time that
\* passed since the message before it.
Shape(user, type, deleted_at, attachments, hasId, gap) ==
  [ user |-> user, type |-> type, deleted_at |-> deleted_at,
    attachments |-> attachments, hasId |-> hasId, gap |-> gap ]

RenderShapes ==
  { Shape(OtherUser, "regular", FALSE, 0, TRUE, 1),
    Shape(LocalUser, "regular", FALSE, 0, TRUE, 1),
    Shape(OtherUser, "regular", FALSE, 0, TRUE, DayLen),
    Shape(OtherUser, "regular", FALSE, 0, TRUE, 7 * DayLen),
    Shape(OtherUser, "regular", FALSE, 1, TRUE, 1),
    Shape(OtherUser, "regular", TRUE, 0, TRUE, 1),
    Shape(OtherUser, "error", FALSE, 0, TRUE, 1),
    Shape(OtherUser, "system", FALSE, 0, TRUE, 1),
    Shape(OtherUser, "message.read", FALSE, 0, TRUE, 1),
    Shape(OtherUser, "regular", FALSE, 0, FALSE, 1),
    Shape(OtherUser, "regular", FALSE, 1, FALSE, 1) }

RECURSIVE CreatedAt(_, _)
CreatedAt(shapes, i) ==
  IF i = 0 THEN 0 ELSE CreatedAt(shapes, i - 1) + shapes[i].gap

\* The messages of the given shapes: ids by position, times ascending.
MessagesOf(shapes) ==
  [ i \in 1..Len(shapes) |->
      Msg(IF shapes[i].hasId THEN IdNames[i] ELSE NoId,
          shapes[i].user, shapes[i].type, shapes[i].deleted_at,
          CreatedAt(shapes, i), shapes[i].attachments) ]

RenderMessages ==
  { MessagesOf(sh) :
      sh \in UNION { [ 1..n -> RenderShapes ] : n \in 0..MaxRenderLen } }

RenderEventHistories ==
  { NoEvents,
    [ NoEvents EXCEPT !["m1"] = << 2 >> ],
    [ NoEvents EXCEPT ![First] = << 2 >> ] }

\* The state after the constructor ran, for the props render() reads.
InitRender ==
  /\ phase = "constructed"
  /\ newMessagesNotification = FALSE
  /\ scrollOffset = Undefined
  /\ messages \in RenderMessages
  /\ eventHistory \in RenderEventHistories
  /\ threadList = FALSE
  /\ noGroupByUser \in BOOLEAN
  /\ scrollHeight = 0
  /\ scrollTop = 0
  /\ timers = << >>
  /\ error = FALSE
  /\ allMessages = << >>
  /\ messageGroupStyles = EmptyMap
  /\ read = << >>
  /\ readData = EmptyMap
  /\ online = TRUE
  /\ editing = ""
  /\ listeners = {}
  /\ cycle = Did("constructor", FALSE, "none")

\* render(): allMessages = this.insertDates(allMessages);
\*           messageGroupStyles = this.getGroupStyles(allMessages);
\*           allMessages.sort(...);
\*           readData = this.getReadStates(allMessages).
render ==
  /\ cycle.op = "constructor"
  /\ allMessages' = sort(insertDates(messages, eventHistory))
  /\ messageGroupStyles' =
       getGroupStyles(insertDates(messages, eventHistory), noGroupByUser)
  /\ readData' =
       getReadStates(sort(insertDates(messages, eventHistory)), read)
  /\ cycle' = Did("render", FALSE, "none")
  /\ UNCHANGED << phase, newMessagesNotification, scrollOffset, messages,
                  eventHistory, threadList, noGroupByUser, scrollHeight,
                  scrollTop, timers, error, read, online, editing, listeners >>

NextRender == render

SpecRender == InitRender /\ [][NextRender]_vars

-----------------------------------------------------------------------------
(* render() with read states *)

\* The users of the read states, in Object.values order.
ReadUsers == << "u1", "u2", "u3", "u4" >>

\* The time an edited message was last updated at.
EditTime == 9

\* last_read of a read state: null, a time at which the second message was
\* created, a time after every creation and edit.
LastReads == { Undefined, 2, 10 }

\* What a message read by others looks like: whether it has an id yet and
\* whether it was edited after the messages that follow it were created.
ReadShapes == { << TRUE, FALSE >>, << TRUE, TRUE >>, << FALSE, FALSE >> }

\* The messages of the given shapes: ids by position, created one time unit
\* apart.
ReadMessagesOf(shapes) ==
  [ i \in 1..Len(shapes) |->
      [ Msg(IF shapes[i][1] THEN IdNames[i] ELSE NoId,
            OtherUser, "regular", FALSE, i, 0)
        EXCEPT !.updated_at = IF shapes[i][2] THEN EditTime ELSE i ] ]

ReadMessages ==
  { ReadMessagesOf(sh) :
      sh \in UNION { [ 1..n -> ReadShapes ] : n \in 0..MaxReadLen } }

ReadStatesOf(lastReads) ==
  [ i \in 1..Len(lastReads) |-> ReadState(ReadUsers[i], lastReads[i]) ]

ReadProps ==
  { ReadStatesOf(lr) :
      lr \in UNION { [ 1..n -> LastReads ] : n \in 0..MaxReads } }

\* The state after the constructor ran, for the props getReadStates reads.
InitRead ==
  /\ phase = "constructed"
  /\ newMessagesNotification = FALSE
  /\ scrollOffset = Undefined
  /\ messages \in ReadMessages
  /\ eventHistory \in LifeEventHistories
  /\ threadList = FALSE
  /\ noGroupByUser = FALSE
  /\ scrollHeight = 0
  /\ scrollTop = 0
  /\ timers = << >>
  /\ error = FALSE
  /\ allMessages = << >>
  /\ messageGroupStyles = EmptyMap
  /\ read \in ReadProps
  /\ readData = EmptyMap
  /\ online = TRUE
  /\ editing = ""
  /\ listeners = {}
  /\ cycle = Did("constructor", FALSE, "none")

NextRead == render

SpecRead == InitRead /\ [][NextRead]_vars

-----------------------------------------------------------------------------
(* The online and editing sub-states *)

\* KEY_CODES.ESC, and the code of another key (Enter).
ESC == 27

Enter == 13

KeyCodes == { ESC, Enter }

\* Everything the handlers of this section leave alone.  Their setState
\* makes the component render again with the props it has: the timeline, the
\* styles and the read index come out as they are, getSnapshotBeforeUpdate
\* returns null and componentDidUpdate finds no new message.
listVars ==
  << phase, newMessagesNotification, scrollOffset, messages, eventHistory,
     threadList, noGroupByUser, scrollHeight, scrollTop, timers, error,
     allMessages, messageGroupStyles, read, readData, listeners >>

\* connectionChanged that never calls setState.
connectionChanged_Ignore(isOnline, eventOnline) == isOnline

\* connectionChanged(event): this.state.online after the handler.
connectionChanged(isOnline, eventOnline) ==
  IF isOnline # eventOnline THEN eventOnline ELSE isOnline

\* <Notification active={!this.state.online}>: the connection banner shows.
NotificationActive(isOnline) == ~isOnline

\* keypress clearing the edit on any key.
keypress_AnyKey(edited, keyCode) ==
  IF edited # "" /\ edited # NoId THEN "" ELSE edited

\* keypress(event): this.state.editing after the handler (an empty or
\* undefined editing is falsy).
keypress(edited, keyCode) ==
  IF keyCode = ESC /\ edited # "" /\ edited # NoId THEN "" ELSE edited

\* render(): the editing prop of the Message element of a message.
editingOf(edited, message) ==
  edited # "" /\ edited # NoId /\ edited = message.id

\* What the handler of an event leaves in cycle.op.
ConnectionOp(eventOnline) ==
  IF eventOnline THEN "connection.changed online"
  ELSE "connection.changed offline"

\* For a keydown: the key, and whether the handler called
\* clearEditingState.
KeyOp(keyCode, cleared) ==
  IF keyCode = ESC
  THEN IF cleared THEN "keydown ESC clearEditingState" ELSE "keydown ESC"
  ELSE IF cleared THEN "keydown other clearEditingState" ELSE "keydown other"

\* The client emits connection.changed; the handler runs if it is
\* registered.
ClientEmits(eventOnline) ==
  /\ online' = IF "connection.changed" \in listeners
               THEN connectionChanged(online, eventOnline)
               ELSE online
  /\ cycle' = Did(ConnectionOp(eventOnline), FALSE, "none")
  /\ UNCHANGED << listVars, editing >>

\* The document gets a keydown; the handler runs if it is registered.
KeyDown(keyCode) ==
  /\ editing' = IF "keydown" \in listeners
                THEN keypress(editing, keyCode)
                ELSE editing
  /\ cycle' = Did(KeyOp(keyCode, "keydown" \in listeners
                                   /\ keypress(editing, keyCode) # editing),
                  FALSE, "none")
  /\ UNCHANGED << listVars, online >>

\* A Message element calls setEditingState(message).
setEditingState(message) ==
  /\ phase = "mounted"
  /\ editing' = message.id
  /\ cycle' = Did("setEditingState", FALSE, "none")
  /\ UNCHANGED << listVars, online >>

\* A Message element calls clearEditingState(e).
clearEditingState ==
  /\ phase = "mounted"
  /\ editing' = ""
  /\ cycle' = Did("clearEditingState", FALSE, "none")
  /\ UNCHANGED << listVars, online >>

\* The messages the list is given: those of the channel, and one the local
\* user has just sent, which has no id yet.
StateMessages ==
  LifeMessages \cup
    { Append(msgs, Msg(NoId, LocalUser, "regular", FALSE, 4, 0)) :
        msgs \in LifeMessages }

\* The state after the constructor ran.
InitState ==
  /\ phase = "constructed"
  /\ newMessagesNotification = FALSE
  /\ scrollOffset = Undefined
  /\ messages \in StateMessages
  /\ eventHistory = NoEvents
  /\ threadList = FALSE
  /\ noGroupByUser = FALSE
  /\ scrollHeight = 0
  /\ scrollTop = 0
  /\ timers = << >>
  /\ error = FALSE
  /\ allMessages = << >>
  /\ messageGroupStyles = EmptyMap
  /\ read = << >>
  /\ readData = EmptyMap
  /\ online = TRUE
  /\ editing = ""
  /\ listeners = {}
  /\ cycle = Did("constructor", FALSE, "none")

NextState ==
  \/ componentDidMount
  \/ \E eventOnline \in BOOLEAN : ClientEmits(eventOnline)
  \/ \E keyCode \in KeyCodes : KeyDown(keyCode)
  \/ \E i \in 1..Len(messages) : setEditingState(messages[i])
  \/ clearEditingState
  \/ BottomTimerFires
  \/ Tick
  \/ componentWillUnmount

SpecState == InitState /\ [][NextState]_vars

-----------------------------------------------------------------------------
(* Properties of the life cycle *)

Last(seq) == seq[Len(seq)]

\* The number of pending tasks of the given kind.
Pending(ts, task) == Cardinality({ i \in 1..Len(ts) : ts[i].task = task })

\* The scrollTop at which the list shows its bottom.
Bottom(height) == height - OffsetHeight

\* This step is an update cycle.
UpdateStep == cycle'.op = "componentDidUpdate"

\* C1: every deferred scroll task (the 100 ms re-application of the anchor
\* restore, the 200 ms re-issue of scrollToBottom) is cancelled by
\* componentWillUnmount: once the component is torn down no such task runs
\* and none raises an error.
C1_DeferredTasksCancelledAtTeardown ==
  phase = "unmounted" =>
    /\ cycle.op \notin { "restoreTimer", "bottomTimer" }
    /\ ~error

\* C2: in an update cycle with a non-empty previous and current message
\* sequence, a changed last id, a last message of another user, a tracked
\* offset above the threshold and no notification pending, the cycle ends
\* with newMessagesNotification = true and scrollToBottom is not invoked
\* (no scroll to the bottom is made, no re-issue is scheduled).
C2_NotificationWhenScrolledUp ==
  [][ ( /\ UpdateStep
        /\ messages # << >>
        /\ messages' # << >>
        /\ Last(messages').id # Last(messages).id
        /\ Last(messages').user # LocalUser
        /\ scrollOffset > ScrollThreshold
        /\ ~newMessagesNotification )
      => ( /\ newMessagesNotification'
           /\ ~cycle'.scrollToBottom
           /\ Pending(timers', "bottom") = Pending(timers, "bottom") ) ]_vars

\* C2's case happened: an update cycle set the notification for a new
\* message of another user while the user was scrolled up.
C2_Witness ==
  /\ cycle.op = "componentDidUpdate"
  /\ cycle.setNotification = "true"
  /\ newMessagesNotification
  /\ ~cycle.scrollToBottom
  /\ scrollOffset > ScrollThreshold
  /\ Last(messages).user # LocalUser

\* C3: in an update cycle with a non-empty previous and current message
\* sequence and a changed last id, if the last message is the local user's
\* (wherever the list is scrolled) or the user is not scrolled up, then
\* scrollToBottom is invoked (the list shows its bottom, the re-issue is
\* scheduled) and newMessagesNotification is false when the cycle ends.
C3_ScrollToBottomOnNewMessage ==
  [][ ( /\ UpdateStep
        /\ messages # << >>
        /\ messages' # << >>
        /\ Last(messages').id # Last(messages).id
        /\ \/ Last(messages').user = LocalUser
           \/ ~(scrollOffset > ScrollThreshold) )
      => ( /\ cycle'.scrollToBottom
           /\ scrollTop' = Bottom(scrollHeight')
           /\ timers' # << >>
           /\ Last(timers') = Timer("bottom", BottomDelay, Undefined)
           /\ ~newMessagesNotification' ) ]_vars

\* C3's case happened: the local user's new message scrolled the list to the
\* bottom and cleared a pending notification while the user was scrolled up.
C3_Witness ==
  /\ cycle.op = "componentDidUpdate"
  /\ cycle.scrollToBottom
  /\ cycle.setNotification = "false"
  /\ ~newMessagesNotification
  /\ scrollOffset > ScrollThreshold
  /\ Last(messages).user = LocalUser
  /\ scrollTop = Bottom(scrollHeight)

\* C4: a report listenToScroll(offset) with offset <= 310 while the
\* notification is pending clears it, the message sequence being unchanged;
\* a report with offset > 310 leaves the flag as it is.
C4_ScrollBackClearsNotification ==
  [][ cycle'.op = "listenToScroll"
      => ( /\ scrollOffset' <= ScrollThreshold /\ newMessagesNotification
                => ~newMessagesNotification'
           /\ scrollOffset' > ScrollThreshold
                => newMessagesNotification' = newMessagesNotification
           /\ messages' = messages
           /\ eventHistory' = eventHistory ) ]_vars

\* C4's case happened: a report of exactly the threshold cleared a pending
\* notification.
C4_Witness ==
  /\ cycle.op = "listenToScroll"
  /\ cycle.setNotification = "false"
  /\ scrollOffset = ScrollThreshold
  /\ ~newMessagesNotification

\* C5: goToNewMessages invokes scrollToBottom (the list shows its bottom,
\* the re-issue is scheduled) and leaves newMessagesNotification = false.
C5_GoToNewMessages ==
  cycle.op = "goToNewMessages" =>
    /\ cycle.scrollToBottom
    /\ scrollTop = Bottom(scrollHeight)
    /\ timers # << >>
    /\ Last(timers) = Timer("bottom", BottomDelay, Undefined)
    /\ ~newMessagesNotification

\* C5's case happened: goToNewMessages ran while the user was scrolled up in
\* a list that scrolls.
C5_Witness ==
  /\ cycle.op = "goToNewMessages"
  /\ scrollOffset > ScrollThreshold
  /\ scrollHeight > OffsetHeight
  /\ scrollTop = Bottom(scrollHeight)
  /\ ~newMessagesNotification

\* The distance from the top of the viewport to the end of the content: the
\* quantity the snapshot captures.
Distance(height, top) == height - top

\* C6: in every update cycle a snapshot is captured if and only if the view
\* is no thread view and the message count increased or eventHistory changed;
\* a captured snapshot is scrollHeight - scrollTop as read before the update,
\* and right after the update scrollTop is assigned new scrollHeight -
\* snapshot (the container keeps an assigned scrollTop within its scrollable
\* range), so that the distance from the bottom is the one before the
\* update; in a thread view no snapshot is captured, no restore is applied
\* and no re-application is scheduled.
C6_ScrollAnchoring ==
  [][ UpdateStep
      => ( /\ cycle'.snapshot # Undefined
                <=> ( /\ ~threadList
                      /\ \/ Len(messages) < Len(messages')
                         \/ eventHistory' # eventHistory )
           /\ cycle'.snapshot # Undefined
                => ( /\ cycle'.snapshot = Distance(scrollHeight, scrollTop)
                     /\ cycle'.restore = scrollHeight' - cycle'.snapshot
                     /\ ~cycle'.scrollToBottom
                          => scrollTop' = Clamp(cycle'.restore, scrollHeight')
                     /\ ~cycle'.scrollToBottom /\ cycle'.restore >= 0
                          => Distance(scrollHeight', scrollTop')
                               = Distance(scrollHeight, scrollTop) )
           /\ threadList
                => ( /\ cycle'.snapshot = Undefined
                     /\ cycle'.restore = Undefined
                     /\ Pending(timers', "restore")
                          = Pending(timers, "restore") ) ) ]_vars

\* C6's case happened: an update of a non-thread view captured a snapshot
\* while the user was scrolled up, and the restore moved scrollTop so that
\* the distance from the bottom is the captured one.
C6_Witness ==
  /\ cycle.op = "componentDidUpdate"
  /\ ~threadList
  /\ cycle.snapshot # Undefined
  /\ ~cycle.scrollToBottom
  /\ ~cycle.sameMessages
  /\ cycle.restore > 0
  /\ scrollTop = cycle.restore
  /\ scrollTop < Bottom(scrollHeight)
  /\ Distance(scrollHeight, scrollTop) = cycle.snapshot

Scheduled == SubSeq(timers', Len(timers) + 1, Len(timers'))

\* C17: an update cycle that decides to scroll to the bottom leaves the list
\* at its bottom and schedules the 200 ms re-issue last; an update cycle
\* schedules the 100 ms re-application of the restore exactly if it captured
\* a snapshot and the newest message is not the local user's, ahead of the
\* re-issue and due before it; when a re-issue fires in the mounted
\* component, no re-application scheduled before it is still pending and the
\* list is at its bottom afterwards.
C17_DeferredTasksTogether ==
  [][ /\ ( UpdateStep /\ cycle'.scrollToBottom )
           => ( /\ scrollTop' = Bottom(scrollHeight')
                /\ Scheduled # << >>
                /\ Last(Scheduled) = Timer("bottom", BottomDelay, Undefined) )
      /\ UpdateStep
           => ( /\ Pending(Scheduled, "restore") =
                     IF /\ cycle'.snapshot # Undefined
                        /\ messages' # << >>
                        /\ Last(messages').user # LocalUser
                     THEN 1 ELSE 0
                /\ \A i, j \in 1..Len(Scheduled) :
                     ( /\ Scheduled[i].task = "restore"
                       /\ Scheduled[j].task = "bottom" )
                     => ( i < j /\ Scheduled[i].rem < Scheduled[j].rem ) )
      /\ ( cycle'.op = "bottomTimer" /\ phase = "mounted" )
           => ( /\ scrollTop' = Bottom(scrollHeight')
                /\ \A i \in 1..(DueTimer - 1) : timers[i].task # "restore" )
    ]_vars

\* C17's case happened: an update cycle captured a snapshot, decided to
\* scroll to the bottom for another user's new message and scheduled both
\* tasks, the re-application ahead of the re-issue.
C17_Witness ==
  /\ cycle.op = "componentDidUpdate"
  /\ cycle.scrollToBottom
  /\ cycle.snapshot # Undefined
  /\ Last(messages).user # LocalUser
  /\ Len(timers) >= 2
  /\ timers[Len(timers) - 1] = Timer("restore", RestoreDelay, cycle.snapshot)
  /\ Last(timers) = Timer("bottom", BottomDelay, Undefined)
  /\ scrollTop = Bottom(scrollHeight)
  /\ scrollHeight > OffsetHeight

\* C18: an update cycle whose previous or current message sequence is empty
\* makes no notification transition: it does not scroll to the bottom,
\* schedules no re-issue, calls no setState for the flag, and
\* newMessagesNotification keeps its value.
C18_NoTransitionWhenEmpty ==
  [][ ( UpdateStep /\ ( messages = << >> \/ messages' = << >> ) )
      => ( /\ ~cycle'.scrollToBottom
           /\ Pending(timers', "bottom") = Pending(timers, "bottom")
           /\ cycle'.setNotification = "none"
           /\ newMessagesNotification' = newMessagesNotification ) ]_vars

\* C18's case happened: the messages were all removed while the
\* notification was pending and the user scrolled up; the flag stays.
C18_Witness ==
  /\ cycle.op = "componentDidUpdate"
  /\ messages = << >>
  /\ ~cycle.sameMessages
  /\ ~cycle.scrollToBottom
  /\ newMessagesNotification
  /\ scrollOffset > ScrollThreshold

\* C20: no scroll operation raises an error, and one that runs while the
\* refs are not attached (a deferred task firing after the unmount) leaves
\* the scroll position alone.
C20_DetachedScrollIsNoOp ==
  /\ error = FALSE
  /\ ( cycle.op \in { "restoreTimer", "bottomTimer" } /\ ~Attached(phase) )
       => ( scrollTop = 0 /\ ~cycle.scrollToBottom )

\* C22: whenever the new-messages notification is pending, the offset last
\* reported to listenToScroll is defined and greater than the threshold of
\* 310; the notification is never pending before the first report.
C22_NotificationImpliesScrolledUp ==
  newMessagesNotification =>
    ( scrollOffset # Undefined /\ scrollOffset > ScrollThreshold )

\* The notification, set by an earlier update cycle, is still pending after
\* a later scroll report.
C22_Witness ==
  /\ cycle.op = "listenToScroll"
  /\ cycle.setNotification = "none"
  /\ newMessagesNotification
  /\ scrollOffset > ScrollThreshold

-----------------------------------------------------------------------------
(* Properties of render() *)

\* The messages handed to render() hold no read marker.
NoReadMarker ==
  \A i \in 1..Len(messages) : messages[i].type # "message.read"

\* The messages handed to render() hold no read marker and no deleted
\* message: insertDates applies its date logic to every one of them.
AllDated ==
  \A i \in 1..Len(messages) :
    messages[i].type # "message.read" /\ ~messages[i].deleted_at

\* The position of the message entry nearest before position p of the
\* timeline, 0 if there is none.
PrevMessageAt(tl, p) ==
  LET S == { q \in 1..(p - 1) : ~IsMarker(tl[q]) }
  IN IF S = {} THEN 0 ELSE CHOOSE q \in S : \A r \in S : r <= q

\* The position of the message entry nearest after position p of the
\* timeline, 0 if there is none.
NextMessageAt(tl, p) ==
  LET S == { q \in (p + 1)..Len(tl) : ~IsMarker(tl[q]) }
  IN IF S = {} THEN 0 ELSE CHOOSE q \in S : \A r \in S : q <= r

SameDay(a, b) == CalendarDay(a.created_at) = CalendarDay(b.created_at)

\* The message entry at p is the first message of the timeline or falls on
\* another calendar day than the message before it.
StartsDay(tl, p) ==
  LET q == PrevMessageAt(tl, p)
  IN q = 0 \/ ~SameDay(tl[q], tl[p])

\* The styles render() hands to the Message element of the entry at p.
StyleAt(p) == groupStylesOf(messageGroupStyles, allMessages[p])

\* C8: in the timeline built from messages none of which is a read marker
\* or deleted, a date marker stands immediately before a message exactly if
\* the message is the first one or falls on another calendar day than the
\* message before it; every date marker stands immediately before a message
\* and carries that message's time.
C8_DateMarkers ==
  ( cycle.op = "render" /\ AllDated ) =>
    LET tl == allMessages
    IN /\ \A p \in 1..Len(tl) :
            ~IsMarker(tl[p]) =>
              ( ( p > 1 /\ tl[p - 1].type = "message.date" )
                  <=> StartsDay(tl, p) )
       /\ \A p \in 1..Len(tl) :
            tl[p].type = "message.date" =>
              /\ p < Len(tl)
              /\ ~IsMarker(tl[p + 1])
              /\ tl[p].date = tl[p + 1].created_at

\* A message that can be part of a group: regular, not deleted, without
\* attachments.
Groupable(entry) ==
  /\ entry.type = "regular"
  /\ ~entry.deleted_at
  /\ entry.attachments = 0

\* The entry at q, next to the message entry at p, is no part of p's group:
\* there is none, it is a date marker or an event, another user's message,
\* a message of another day, a system or error message, a deleted message
\* or a message with attachments.
EndsGroup(tl, q, p) ==
  \/ q < 1
  \/ q > Len(tl)
  \/ IsMarker(tl[q])
  \/ tl[q].user # tl[p].user
  \/ ~SameDay(tl[q], tl[p])
  \/ tl[q].type \in { "system", "error" }
  \/ tl[q].deleted_at
  \/ tl[q].attachments # 0

\* The message entry at p has, on either side, no message, another user's
\* message or a message of another day.
Isolated(tl, p) ==
  LET a == PrevMessageAt(tl, p)
      b == NextMessageAt(tl, p)
  IN /\ a = 0 \/ tl[a].user # tl[p].user \/ ~SameDay(tl[a], tl[p])
     /\ b = 0 \/ tl[b].user # tl[p].user \/ ~SameDay(tl[b], tl[p])

\* C9: with grouping enabled, three consecutive timeline entries that are
\* regular, undeleted, attachment-free messages of one user and one day, and
\* that make up their whole group, are rendered top, middle, bottom; a
\* message isolated on both sides is rendered single.
C9_GroupOfThree ==
  ( cycle.op = "render" /\ ~noGroupByUser /\ NoReadMarker ) =>
    LET tl == allMessages
    IN /\ \A p \in 1..(Len(tl) - 2) :
            ( /\ \A q \in p..(p + 2) : ~IsMarker(tl[q]) /\ Groupable(tl[q])
              /\ tl[p].user = tl[p + 1].user
              /\ tl[p].user = tl[p + 2].user
              /\ SameDay(tl[p], tl[p + 1])
              /\ SameDay(tl[p], tl[p + 2])
              /\ EndsGroup(tl, p - 1, p)
              /\ EndsGroup(tl, p + 3, p + 2) )
            => ( /\ StyleAt(p) = << "top" >>
                 /\ StyleAt(p + 1) = << "middle" >>
                 /\ StyleAt(p + 2) = << "bottom" >> )
       /\ \A p \in 1..Len(tl) :
            ( ~IsMarker(tl[p]) /\ Isolated(tl, p) )
            => StyleAt(p) = << "single" >>

\* C10: a message entry with attachments is rendered single, whatever its
\* neighbours and its own deleted or error state are; with noGroupByUser
\* every message entry of the timeline is rendered single.
C10_GroupingOverrides ==
  cycle.op = "render" =>
    \A p \in 1..Len(allMessages) :
      ( /\ ~IsMarker(allMessages[p])
        /\ allMessages[p].attachments # 0 \/ noGroupByUser )
      => StyleAt(p) = << "single" >>

\* The group styles a timeline entry can carry.
GroupStyle == { "top", "bottom", "middle", "single" }

\* The ids under which getGroupStyles stores a style: those of the message
\* entries of the timeline.
StyledIds(tl) == { tl[p].id : p \in { q \in 1..Len(tl) : ~IsMarker(tl[q]) } }

\* C21: in every built timeline, every message entry, id-less ones included,
\* is handed exactly one group style out of top, bottom, middle and single,
\* the one its own neighbours determine; getGroupStyles stores no style for
\* a date marker or an event.
C21_GroupingTotality ==
  cycle.op = "render" =>
    LET tl == allMessages
    IN /\ \A p \in 1..Len(tl) :
            ~IsMarker(tl[p]) =>
              /\ Len(StyleAt(p)) = 1
              /\ StyleAt(p)[1] \in GroupStyle
              /\ StyleAt(p) = GroupStylesAt(tl, p, noGroupByUser)
       /\ DOMAIN messageGroupStyles = StyledIds(tl)

-----------------------------------------------------------------------------
(* Properties of getReadStates *)

\* The users a read-by array holds.
Readers(readBy) == { readBy[i] : i \in 1..Len(readBy) }

\* The position in `read` of the first read state whose last_read is null;
\* one past the end if there is none.
FirstNull ==
  LET S == { j \in 1..Len(read) : read[j].last_read = Undefined }
  IN IF S = {} THEN Len(read) + 1 ELSE CHOOSE j \in S : \A k \in S : j <= k

\* The position in the timeline of the last message updated before
\* last_read; 0 if there is none.
LastReadAt(tl, last_read) ==
  LET S == { p \in 1..Len(tl) :
               /\ ~IsMarker(tl[p])
               /\ tl[p].updated_at < last_read }
  IN IF S = {} THEN 0 ELSE CHOOSE p \in S : \A q \in S : q <= p

\* C11: the keys of the read index are exactly the ids of the message
\* entries of the timeline: no key comes from a date marker or an event,
\* none is missing, and every key maps to an array.
C11_ReadIndexKeys ==
  cycle.op = "render" =>
    /\ DOMAIN readData =
         { allMessages[p].id : p \in { q \in 1..Len(allMessages) :
                                          /\ ~IsMarker(allMessages[q])
                                          /\ allMessages[q].id # NoId } }
    /\ \A k \in DOMAIN readData : readData[k] \in Seq(Readers(ReadUsers))

\* C12: every user of a processed read state is in the read-by array of the
\* last message of the timeline updated before that user's last_read and in
\* no other message's; if there is no such message the user is in none.
C12_ReadAttribution ==
  cycle.op = "render" =>
    \A j \in 1..(FirstNull - 1) :
      \A p \in 1..Len(allMessages) :
        ~IsMarker(allMessages[p]) =>
          ( read[j].user \in Readers(readByOf(readData, allMessages[p]))
              <=> p = LastReadAt(allMessages, read[j].last_read) )

\* C19: the first read state with a null last_read ends the accumulation:
\* neither its user nor the user of any read state after it is in any
\* read-by array, the index is the one the read states before it give, and
\* every entry's id still maps to an array.
C19_ReadEarlyExit ==
  cycle.op = "render" =>
    /\ \A k \in DOMAIN readData :
         \A j \in FirstNull..Len(read) : read[j].user \notin Readers(readData[k])
    /\ readData = getReadStates(allMessages, SubSeq(read, 1, FirstNull - 1))
    /\ \A j \in 1..(FirstNull - 1) :
         LET p == LastReadAt(allMessages, read[j].last_read)
         IN ( p # 0 /\ allMessages[p].id # NoId )
              => read[j].user \in Readers(readData[allMessages[p].id])
    /\ \A p \in 1..Len(allMessages) : allMessages[p].id \in DOMAIN readData

\* C19's case happened: the second of three read states has a null
\* last_read; the first user is attributed to a message, the third, who has
\* read that message too, is not.
C19_Witness ==
  /\ cycle.op = "render"
  /\ Len(read) = 3
  /\ FirstNull = 2
  /\ read[3].last_read # Undefined
  /\ LET p == LastReadAt(allMessages, read[1].last_read)
     IN /\ p # 0
        /\ allMessages[p].id # NoId
        /\ readData[allMessages[p].id] = << read[1].user >>
        /\ LastReadAt(allMessages, read[3].last_read) = p

-----------------------------------------------------------------------------
(* Properties of the online and editing sub-states *)

\* C13: the handler is registered exactly while the component is mounted;
\* after every connection.changed event delivered to it, online is the
\* event's value; online changes in no other step (so it is true until the
\* first event and fixed after the unmount); the connection banner shows
\* exactly while online is false.
C13_Connectivity ==
  [][ /\ "connection.changed" \in listeners' <=> phase' = "mounted"
      /\ \A e \in BOOLEAN :
           ( cycle'.op = ConnectionOp(e) /\ phase = "mounted" )
             => online' = e
      /\ online' # online
           => ( /\ phase = "mounted"
                /\ cycle'.op = ConnectionOp(online') )
      /\ phase = "unmounted" => online' = online
      /\ NotificationActive(online') <=> ~online' ]_vars

\* C13's case happened: an event reporting the connection lost reached the
\* mounted component and the banner shows.
C13_Witness ==
  /\ phase = "mounted"
  /\ cycle.op = ConnectionOp(FALSE)
  /\ ~online
  /\ NotificationActive(online)

\* This step is a keydown of the given key.
KeyStep(keyCode) ==
  cycle'.op \in { KeyOp(keyCode, TRUE), KeyOp(keyCode, FALSE) }

\* The positions of the messages rendered in edit mode.
Edited(edited) ==
  { i \in 1..Len(messages) : editingOf(edited, messages[i]) }

\* C14: at most one message is in edit mode; setEditingState(m) makes m.id
\* the value of editing, and m the one message in edit mode if it has an id;
\* clearEditingState, and Escape while an id is being edited, leave no
\* message in edit mode; any other key, and Escape while nothing is edited,
\* leave editing as it is.
C14_EditingState ==
  [][ /\ Cardinality(Edited(editing')) <= 1
      /\ \A i \in 1..Len(messages) :
           setEditingState(messages[i])
             => ( /\ editing' = messages[i].id
                  /\ messages[i].id # NoId => Edited(editing') = { i } )
      /\ cycle'.op = "clearEditingState"
           => ( editing' = "" /\ Edited(editing') = {} )
      /\ ( KeyStep(ESC) /\ phase = "mounted" /\ Edited(editing) # {} )
           => ( editing' = "" /\ Edited(editing') = {} )
      /\ ( KeyStep(ESC) /\ Edited(editing) = {} ) => editing' = editing
      /\ KeyStep(Enter) => editing' = editing ]_vars

\* C14's case happened: Escape cleared the edit of a message.
C14_Witness ==
  /\ phase = "mounted"
  /\ cycle.op = KeyOp(ESC, TRUE)
  /\ editing = ""
  /\ Edited(editing) = {}
  /\ messages # << >>

-----------------------------------------------------------------------------
(* Properties of the timeline's order and events *)

\* The effective timestamp of a timeline entry: a message's created_at, a
\* date marker's date, an event's created_at.
EffectiveTime(entry) ==
  IF entry.type = "message.date" THEN entry.date
  ELSE IF entry.type = "channel.event" THEN entry.event
  ELSE entry.created_at

\* C15: the timeline render() iterates over is in ascending order of
\* effective timestamp: no entry's is above that of the entry after it.
C15_SortedTimeline ==
  cycle.op = "render" =>
    \A p \in 1..(Len(allMessages) - 1) :
      EffectiveTime(allMessages[p]) <= EffectiveTime(allMessages[p + 1])

\* The events of the event entries that follow position p of the timeline
\* directly, in order.
RECURSIVE EventsAfter(_, _)
EventsAfter(tl, p) ==
  IF p + 1 > Len(tl) THEN << >>
  ELSE IF tl[p + 1].type # "channel.event" THEN << >>
  ELSE << tl[p + 1].event >> \o EventsAfter(tl, p + 1)

\* C16: in the timeline built from messages none of which is a read marker
\* or deleted, the first message is followed by the events bucketed under
\* its id and those bucketed under "first", every other message by the
\* events bucketed under its id and no others, and every event entry
\* follows a message or another event.
C16_EventPlacement ==
  ( cycle.op = "render" /\ AllDated ) =>
    LET tl == allMessages
    IN /\ \A p \in 1..Len(tl) :
            ~IsMarker(tl[p]) =>
              EventsAfter(tl, p) =
                ( IF tl[p].id # NoId THEN eventHistory[tl[p].id] ELSE << >> )
                  \o ( IF PrevMessageAt(tl, p) = 0 THEN eventHistory[First]
                       ELSE << >> )
       /\ \A p \in 1..Len(tl) :
            tl[p].type = "channel.event" =>
              p > 1 /\ tl[p - 1].type # "message.date"

=============================================================================
